---- MODULE Spec2Model ----
(***************************************************************************)
(* A model of the top.gg client library (src/src/lib.rs):                  *)
(*   - Topgg, the directory client: every operation waits for a permit of  *)
(*     the client's rate limiter, issues one HTTP request and maps the     *)
(*     response;                                                           *)
(*   - WebhookClient::start, the webhook listener: a chain of request      *)
(*     filters that ends in a push onto an unbounded channel.              *)
(* Time is counted in seconds.  Strings that the code parses are sequences *)
(* of one-character strings, so that parsing is computed.                  *)
(***************************************************************************)
EXTENDS Integers, Sequences, FiniteSets, TLC

VARIABLES
    now,        \* the limiter's clock reading, in seconds since construction
    tat,        \* the limiter's state cell (0: nothing stored yet)
    granted,    \* permits granted since construction (history)
    callsLeft,  \* invocations the embedding application still makes
    pc,         \* per caller: where its current invocation stands
    op,         \* per caller: the method that runs (a shortcut runs its target)
    args,       \* per caller: the arguments of post_bot_stats
    nperm,      \* per caller: permits acquired by the current invocation
    nreq,       \* per caller: HTTP requests issued by the current invocation
    req,        \* per caller: the request issued by the current invocation
    resp,       \* per caller: the outcome of the HTTP exchange
    result,     \* per caller: the value returned to the caller
    wakeAt,     \* per caller: the instant its Delay expires
    waitQueue,  \* the invocations inside until_ready, in the order they entered
    conn,       \* per connection of the listener: the request and its stage
    arrivals,   \* requests the listener has accepted so far (history)
    channel,    \* the notifications buffered in the unbounded channel
    pushLog,    \* every notification pushed, in push order (history)
    recvLog     \* every notification the consumer received, in order (history)

clientVars == <<now, tat, granted, callsLeft, pc, op, args, nperm, nreq, req,
                resp, result, wakeAt, waitQueue>>

hookVars == <<conn, arrivals, channel, pushLog, recvLog>>

vars == <<clientVars, hookVars>>

----------------------------------------------------------------------------
(* Bounds of the model *)

NumCallers == 1
NumWaiters == 2
MaxTime == 1
MaxCalls == 2
LimiterCalls == 62
NumConns == 2
MaxRequests == 2

\* the tasks of the embedding application that use the client
Callers == DOMAIN pc

----------------------------------------------------------------------------
(* Option and small helpers *)

None == [some |-> FALSE]
Some(x) == [some |-> TRUE, val |-> x]

Max(a, b) == IF a >= b THEN a ELSE b
SatSub(a, b) == IF a >= b THEN a - b ELSE 0

RECURSIVE Without(_, _)
Without(s, x) ==
    IF s = <<>> THEN <<>>
    ELSE IF Head(s) = x THEN Without(Tail(s), x)
    ELSE <<Head(s)>> \o Without(Tail(s), x)

\* x stands before y in s
Before(s, x, y) ==
    \E i, j \in 1..Len(s) : i < j /\ s[i] = x /\ s[j] = y

----------------------------------------------------------------------------
(* str::parse::<u64>: an optional "+", then one or more decimal digits.    *)
(* The strings of the model are short, so the value always fits 64 bits.   *)

Digits == {"0", "1", "2", "3", "4", "5", "6", "7", "8", "9"}

DigitVal(ch) ==
    CASE ch = "0" -> 0 [] ch = "1" -> 1 [] ch = "2" -> 2 [] ch = "3" -> 3
      [] ch = "4" -> 4 [] ch = "5" -> 5 [] ch = "6" -> 6 [] ch = "7" -> 7
      [] ch = "8" -> 8 [] ch = "9" -> 9

RECURSIVE DecimalValue(_)
DecimalValue(s) ==
    IF s = <<>> THEN 0
    ELSE DecimalValue(SubSeq(s, 1, Len(s) - 1)) * 10 + DigitVal(s[Len(s)])

ParseU64(s) ==
    LET d == IF s # <<>> /\ Head(s) = "+" THEN Tail(s) ELSE s
    IN  IF d # <<>> /\ \A i \in 1..Len(d) : d[i] \in Digits
        THEN Some(DecimalValue(d))
        ELSE None

ParsesU64(s) == ParseU64(s) # None

RECURSIVE ParseAll(_)
ParseAll(ss) ==
    IF ss = <<>> THEN <<>> ELSE <<ParseU64(Head(ss)).val>> \o ParseAll(Tail(ss))

----------------------------------------------------------------------------
(* The rate limiter: Quota::per_minute(60) of a direct, in-memory limiter  *)

MinuteSecs == 60
BucketCapacity == 60

\* the emission interval and the burst tolerance of the quota
EmissionInterval == MinuteSecs \div BucketCapacity
\* a burst tolerance one emission interval too wide
TauOffByOne == EmissionInterval * (BucketCapacity + 1)

Tau == EmissionInterval * BucketCapacity

\* the arrival time the limiter works from: a cell holding nothing stands
\* for a bucket that is full at the instant of the check
TatAt(t0) == IF tat = 0 THEN t0 + EmissionInterval ELSE tat

EarliestTime(t0) == SatSub(TatAt(t0), Tau)

LimiterReady(t0) == t0 >= EarliestTime(t0)

NextTat(t0) == Max(TatAt(t0), t0) + EmissionInterval

----------------------------------------------------------------------------
(* Wire values.  A JSON text is invalid, an object (a record of its        *)
(* members) or an array; the outcome of an HTTP exchange is a transport    *)
(* error or a response with a body.                                        *)

NotJson == [t |-> "invalid"]
JObject(r) == [t |-> "object", v |-> r]
JArray(s) == [t |-> "array", v |-> s]

TransportError == [sent |-> FALSE]
Body(j) == [sent |-> TRUE, json |-> j]

\* what a call hands back: a value, or a panic that unwinds the caller
Panic == [kind |-> "panic"]
Returned(x) == [kind |-> "return", val |-> x]

IsObjectWith(j, fields) == j.t = "object" /\ fields \subseteq DOMAIN j.v

OptField(r, f) == IF f \in DOMAIN r THEN Some(r[f]) ELSE None

\* the body an error response of the directory carries
ErrorJson == JObject([error |-> "Not Found"])

GoodId == <<"1", "2">>
BadId == <<"x">>
IdStrings == {GoodId, BadId}

----------------------------------------------------------------------------
(* Topgg::bot *)

JsonBotFields == {"id", "owners", "guilds", "donatebotguildid"}

BotJsons ==
    { JObject([id |-> i, owners |-> o, guilds |-> g, donatebotguildid |-> d]) :
        i \in IdStrings, o \in {<<GoodId>>, <<BadId>>},
        g \in {<<>>, <<BadId>>}, d \in IdStrings }

MapBot(j) ==
    IF /\ ParsesU64(j.id)
       /\ \A k \in 1..Len(j.owners) : ParsesU64(j.owners[k])
       /\ \A k \in 1..Len(j.guilds) : ParsesU64(j.guilds[k])
    THEN Returned(Some([id |-> ParseU64(j.id).val,
                        owners |-> ParseAll(j.owners),
                        guilds |-> ParseAll(j.guilds),
                        donate_bot_guild_id |-> ParseU64(j.donatebotguildid)]))
    ELSE Panic

BotResult(r) ==
    IF ~r.sent THEN Returned(None)
    ELSE IF ~IsObjectWith(r.json, JsonBotFields) THEN Returned(None)
    ELSE MapBot(r.json.v)

----------------------------------------------------------------------------
(* Topgg::user *)

JsonUserFields == {"id", "social"}

UserJsons ==
    { JObject([id |-> i, social |-> s]) :
        i \in IdStrings,
        s \in {[twitter |-> "t", github |-> "g"], [github |-> "g"]} }

MapUser(j) ==
    IF ParsesU64(j.id)
    THEN Returned(Some([id |-> ParseU64(j.id).val,
                        twitter |-> OptField(j.social, "twitter"),
                        github |-> OptField(j.social, "github")]))
    ELSE Panic

UserResult(r) ==
    IF ~r.sent THEN Returned(None)
    ELSE IF ~IsObjectWith(r.json, JsonUserFields) THEN Returned(None)
    ELSE MapUser(r.json.v)

----------------------------------------------------------------------------
(* Topgg::votes *)

VotesJsons ==
    { JArray(s) : s \in {<<>>, <<[id |-> GoodId]>>,
                         <<[id |-> GoodId], [id |-> BadId]>>} }

IsPartialUserArray(j) ==
    j.t = "array" /\ \A k \in 1..Len(j.v) : "id" \in DOMAIN j.v[k]

MapVotes(s) ==
    IF \A k \in 1..Len(s) : ParsesU64(s[k].id)
    THEN Returned(Some(ParseAll([k \in 1..Len(s) |-> s[k].id])))
    ELSE Panic

VotesResult(r) ==
    IF ~r.sent THEN Returned(None)
    ELSE IF ~IsPartialUserArray(r.json) THEN Returned(None)
    ELSE MapVotes(r.json.v)

----------------------------------------------------------------------------
(* Topgg::voted, CheckVote { voted: i8 } *)

I8Min == -128
I8Max == 127

WireInts == {I8Min - 1, I8Min, -1, 0, 1, I8Max, I8Max + 1}

VotedJsons == { JObject([voted |-> n]) : n \in WireInts }

IsCheckVote(j) ==
    IsObjectWith(j, {"voted"}) /\ j.v.voted >= I8Min /\ j.v.voted <= I8Max

\* a flag that takes only positive values for a vote
VotedFlagPositive(v) == IF v > 0 THEN TRUE ELSE FALSE

VotedFlag(v) == IF v = 0 THEN FALSE ELSE TRUE

VotedResult(r) ==
    IF ~r.sent THEN Returned(None)
    ELSE IF ~IsCheckVote(r.json) THEN Returned(None)
    ELSE Returned(Some(VotedFlag(r.json.v.voted)))

----------------------------------------------------------------------------
(* Topgg::get_bot_stats, BotStats *)

StatsJsons ==
    { JObject([shards |-> <<1, 2>>, server_count |-> 3]),
      JObject([server_count |-> 3]) }

StatsResult(r) ==
    IF ~r.sent THEN Returned(None)
    ELSE IF ~IsObjectWith(r.json, {"shards"}) THEN Returned(None)
    ELSE Returned(Some([server_count |-> OptField(r.json.v, "server_count"),
                        shards |-> r.json.v.shards,
                        shard_count |-> OptField(r.json.v, "shard_count")]))

----------------------------------------------------------------------------
(* Topgg::post_bot_stats, PostBotStats *)

PostFields == {"server_count", "shards", "shard_id", "shard_count"}

PostArgs ==
    [server_count : {None, Some(5)}, shards : {None, Some(<<1, 2>>)},
     shard_id : {None, Some(0)}, shard_count : {None, Some(2)}]

\* the derived Serialize writes every member; an Option that is None is
\* written as null
Null == [null |-> TRUE]
SerializePostBotStats(a) ==
    [f \in PostFields |-> IF a[f] = None THEN Null ELSE [null |-> FALSE, val |-> a[f].val]]

PostResult(r) == Returned([ok |-> r.sent])

----------------------------------------------------------------------------
(* WebhookClient::start: the listener answers every request with the      *)
(* filter warp::post().and(filter).and(warp::body::json()).map(push)       *)

Conns == 1..NumConns

\* the auth argument of start
Secret == "a-very-secret-password"

Methods == {"GET", "POST"}
AuthHeaders == {None, Some(Secret), Some("A-Very-Secret-Password")}

WebhookFields == {"bot", "user", "type", "isWeekend"}

VoteJson ==
    JObject([bot |-> "668", user |-> "u1", type |-> "upvote",
             isWeekend |-> FALSE, query |-> "?a=1"])
TestJson ==
    JObject([bot |-> "668", user |-> "u2", type |-> "test", isWeekend |-> TRUE])
SnakeJson ==
    JObject([bot |-> "668", user |-> "u3", kind |-> "upvote", is_weekend |-> TRUE])

WebhookBodies == {VoteJson, TestJson, SnakeJson, NotJson}

Requests == [method : Methods, auth : AuthHeaders, body : WebhookBodies]

\* serde's decoding of Webhook: camelCase members, "type" for kind, query
\* optional
DecodeWebhook(j) ==
    IF IsObjectWith(j, WebhookFields)
    THEN Some([bot |-> j.v.bot, user |-> j.v.user, kind |-> j.v.type,
               is_weekend |-> j.v.isWeekend, query |-> OptField(j.v, "query")])
    ELSE None

\* a header filter that compares without regard to case
LowerCase(x) == IF x = "A-Very-Secret-Password" THEN "a-very-secret-password" ELSE x
AuthFilterIgnoreCase(h) ==
    IF h = None THEN "missing_header"
    ELSE IF LowerCase(h.val) = LowerCase(Secret) THEN "ok"
    ELSE "unauthorized"

\* the header filter: the header must be there and equal the secret
AuthFilter(h) ==
    IF h = None THEN "missing_header"
    ELSE IF h.val = Secret THEN "ok"
    ELSE "unauthorized"

NoHook == [none |-> TRUE]
IdleConn == [stage |-> "idle", rid |-> 0, decoded |-> FALSE, hook |-> NoHook]

Rejected(k, why) ==
    conn' = [conn EXCEPT ![k] = [@ EXCEPT !.stage = "rejected"] @@ [why |-> why]]

Advance(k, stage) == conn' = [conn EXCEPT ![k].stage = stage]

\* the server accepts a request on connection k
Accept(k, rq) ==
    /\ conn[k].stage \in {"idle", "replied", "rejected"}
    /\ arrivals < MaxRequests
    /\ arrivals' = arrivals + 1
    /\ conn' = [conn EXCEPT ![k] =
                  [stage |-> "method", rid |-> arrivals + 1, request |-> rq,
                   decoded |-> FALSE, hook |-> NoHook]]
    /\ UNCHANGED <<channel, pushLog, recvLog, clientVars>>

\* warp::post()
CheckMethod(k) ==
    /\ conn[k].stage = "method"
    /\ IF conn[k].request.method = "POST"
       THEN Advance(k, "auth")
       ELSE Rejected(k, "method_not_allowed")
    /\ UNCHANGED <<arrivals, channel, pushLog, recvLog, clientVars>>

\* warp::header::<String>("authorization").and_then(value == auth)
CheckAuth(k) ==
    /\ conn[k].stage = "auth"
    /\ LET verdict == AuthFilter(conn[k].request.auth)
       IN  IF verdict = "ok" THEN Advance(k, "body") ELSE Rejected(k, verdict)
    /\ UNCHANGED <<arrivals, channel, pushLog, recvLog, clientVars>>

\* warp::body::json()
DecodeBody(k) ==
    /\ conn[k].stage = "body"
    /\ LET d == DecodeWebhook(conn[k].request.body)
       IN  IF d # None
           THEN conn' = [conn EXCEPT ![k].stage = "map", ![k].decoded = TRUE,
                                     ![k].hook = d.val]
           ELSE conn' = [conn EXCEPT ![k] =
                           [@ EXCEPT !.stage = "rejected", !.decoded = TRUE]
                             @@ [why |-> "body_deserialize"]]
    /\ UNCHANGED <<arrivals, channel, pushLog, recvLog, clientVars>>

\* a push onto a channel of capacity one that drops what does not fit
PushLossy(k) ==
    /\ conn[k].stage = "map"
    /\ IF channel = <<>>
       THEN /\ channel' = Append(channel, [rid |-> conn[k].rid, hook |-> conn[k].hook])
            /\ pushLog' = Append(pushLog, [rid |-> conn[k].rid,
                                           request |-> conn[k].request,
                                           hook |-> conn[k].hook])
       ELSE UNCHANGED <<channel, pushLog>>
    /\ Advance(k, "replied")
    /\ UNCHANGED <<arrivals, recvLog, clientVars>>

\* event_send.unbounded_send(hook).unwrap(); warp::reply()
Push(k) ==
    /\ conn[k].stage = "map"
    /\ channel' = Append(channel, [rid |-> conn[k].rid, hook |-> conn[k].hook])
    /\ pushLog' = Append(pushLog, [rid |-> conn[k].rid,
                                   request |-> conn[k].request,
                                   hook |-> conn[k].hook])
    /\ Advance(k, "replied")
    /\ UNCHANGED <<arrivals, recvLog, clientVars>>

\* a consumer handed the newest notification first
RecvNewest ==
    /\ channel # <<>>
    /\ recvLog' = Append(recvLog, channel[Len(channel)])
    /\ channel' = SubSeq(channel, 1, Len(channel) - 1)
    /\ UNCHANGED <<conn, arrivals, pushLog, clientVars>>

\* the consumer's events.next().await
Recv ==
    /\ channel # <<>>
    /\ recvLog' = Append(recvLog, Head(channel))
    /\ channel' = Tail(channel)
    /\ UNCHANGED <<conn, arrivals, pushLog, clientVars>>

----------------------------------------------------------------------------
(* The methods of Topgg *)

ReadOps == {"bot", "user", "votes", "voted", "get_bot_stats"}
Shortcuts == {"my_bot", "my_votes", "voted_for_me", "my_bot_stats"}
PostOp == "post_bot_stats"

\* a shortcut calls the method it abbreviates with the client's own bot id
Target(o) ==
    CASE o = "my_bot" -> "bot"
      [] o = "my_votes" -> "votes"
      [] o = "voted_for_me" -> "voted"
      [] o = "my_bot_stats" -> "get_bot_stats"
      [] OTHER -> o

IsRead(o) == o \in ReadOps

NoArgs == <<>>
ArgsOf(o) == IF o = PostOp THEN PostArgs ELSE {NoArgs}

\* the outcomes of the HTTP exchange a method may meet
Outcomes(o) ==
    {TransportError, Body(ErrorJson)} \cup
    { Body(j) : j \in
        CASE o = "bot" -> BotJsons \cup {NotJson}
          [] o = "user" -> UserJsons \cup {NotJson}
          [] o = "votes" -> VotesJsons \cup {NotJson}
          [] o = "voted" -> VotedJsons \cup {NotJson}
          [] o = "get_bot_stats" -> StatsJsons \cup {NotJson}
          [] OTHER -> {} }

\* what the method does with the outcome of the exchange
Finish(o, r) ==
    CASE o = "bot" -> BotResult(r)
      [] o = "user" -> UserResult(r)
      [] o = "votes" -> VotesResult(r)
      [] o = "voted" -> VotedResult(r)
      [] o = "get_bot_stats" -> StatsResult(r)
      [] OTHER -> PostResult(r)

NoReq == [method |-> "none"]
NoResp == [sent |-> FALSE, pending |-> TRUE]
NoResult == [some |-> FALSE, pending |-> TRUE]

RequestOf(o, a) ==
    IF o = PostOp
    THEN [method |-> "POST", path |-> "/bots/{}/stats",
          body |-> SerializePostBotStats(a)]
    ELSE [method |-> "GET",
          path |-> CASE o = "bot" -> "/bots/{}"
                     [] o = "user" -> "/users/{}"
                     [] o = "votes" -> "/bots/{}/votes"
                     [] o = "voted" -> "/bots/{}/check?userId={}"
                     [] OTHER -> "/bots/{}/stats"]

----------------------------------------------------------------------------
(* The steps of one invocation *)

\* the embedding application invokes method o: the method's first statement
\* is self.limiter.until_ready()
Call(c, o, a) ==
    /\ pc[c] \in {"idle", "returned"}
    /\ callsLeft > 0
    /\ callsLeft' = callsLeft - 1
    /\ pc' = [pc EXCEPT ![c] = "polling"]
    /\ op' = [op EXCEPT ![c] = Target(o)]
    /\ args' = [args EXCEPT ![c] = a]
    /\ nperm' = [nperm EXCEPT ![c] = 0]
    /\ nreq' = [nreq EXCEPT ![c] = 0]
    /\ req' = [req EXCEPT ![c] = NoReq]
    /\ resp' = [resp EXCEPT ![c] = NoResp]
    /\ result' = [result EXCEPT ![c] = NoResult]
    /\ waitQueue' = Append(waitQueue, c)
    /\ UNCHANGED <<now, tat, granted, wakeAt, hookVars>>

\* until_ready checks the limiter: a permit is taken when the bucket allows
\* it, otherwise the invocation sleeps until the earliest instant the
\* bucket can allow it and checks again
Poll(c) ==
    /\ pc[c] = "polling"
    /\ IF LimiterReady(now)
       THEN /\ tat' = NextTat(now)
            /\ granted' = granted + 1
            /\ nperm' = [nperm EXCEPT ![c] = @ + 1]
            /\ pc' = [pc EXCEPT ![c] = "permitted"]
            /\ waitQueue' = Without(waitQueue, c)
            /\ UNCHANGED wakeAt
       ELSE /\ pc' = [pc EXCEPT ![c] = "sleeping"]
            /\ wakeAt' = [wakeAt EXCEPT ![c] = EarliestTime(now)]
            /\ UNCHANGED <<tat, granted, nperm, waitQueue>>
    /\ UNCHANGED <<now, callsLeft, op, args, nreq, req, resp, result, hookVars>>

\* a Delay that may expire before its instant
WakeEarly(c) ==
    /\ pc[c] = "sleeping"
    /\ pc' = [pc EXCEPT ![c] = "polling"]
    /\ UNCHANGED <<now, tat, granted, callsLeft, op, args, nperm, nreq, req,
                   resp, result, wakeAt, waitQueue, hookVars>>

\* the Delay of a sleeping invocation expires
Wake(c) ==
    /\ pc[c] = "sleeping"
    /\ now >= wakeAt[c]
    /\ pc' = [pc EXCEPT ![c] = "polling"]
    /\ UNCHANGED <<now, tat, granted, callsLeft, op, args, nperm, nreq, req,
                   resp, result, wakeAt, waitQueue, hookVars>>

\* the request is built and sent
Send(c) ==
    /\ pc[c] = "permitted"
    /\ pc' = [pc EXCEPT ![c] = "sent"]
    /\ nreq' = [nreq EXCEPT ![c] = @ + 1]
    /\ req' = [req EXCEPT ![c] = RequestOf(op[c], args[c])]
    /\ UNCHANGED <<now, tat, granted, callsLeft, op, args, nperm, resp, result,
                   wakeAt, waitQueue, hookVars>>

\* a method that sends its request again when the transport fails
CompleteRetrying(c, r) ==
    /\ pc[c] = "sent"
    /\ resp' = [resp EXCEPT ![c] = r]
    /\ IF r = TransportError
       THEN /\ nreq' = [nreq EXCEPT ![c] = @ + 1]
            /\ UNCHANGED <<pc, result>>
       ELSE /\ LET out == Finish(op[c], r)
               IN  IF out = Panic
                   THEN /\ pc' = [pc EXCEPT ![c] = "panicked"]
                        /\ UNCHANGED result
                   ELSE /\ pc' = [pc EXCEPT ![c] = "returned"]
                        /\ result' = [result EXCEPT ![c] = out.val]
            /\ UNCHANGED nreq
    /\ UNCHANGED <<now, tat, granted, callsLeft, op, args, nperm, req,
                   wakeAt, waitQueue, hookVars>>

\* the exchange ends with outcome r; the method maps it and returns
Complete(c, r) ==
    /\ pc[c] = "sent"
    /\ resp' = [resp EXCEPT ![c] = r]
    /\ LET out == Finish(op[c], r)
       IN  IF out = Panic
           THEN /\ pc' = [pc EXCEPT ![c] = "panicked"]
                /\ UNCHANGED result
           ELSE /\ pc' = [pc EXCEPT ![c] = "returned"]
                /\ result' = [result EXCEPT ![c] = out.val]
    /\ UNCHANGED <<now, tat, granted, callsLeft, op, args, nperm, nreq, req,
                   wakeAt, waitQueue, hookVars>>

\* a second passes on the limiter's clock
Tick ==
    /\ now < MaxTime
    /\ now' = now + 1
    /\ UNCHANGED <<tat, granted, callsLeft, pc, op, args, nperm, nreq, req,
                   resp, result, wakeAt, waitQueue, hookVars>>

----------------------------------------------------------------------------
(* Specifications of the directory client *)

\* no listener was started
HookIdle ==
    /\ conn = [k \in Conns |-> IdleConn]
    /\ arrivals = 0
    /\ channel = <<>>
    /\ pushLog = <<>>
    /\ recvLog = <<>>

CallersIdle(n) ==
    /\ pc = [c \in 1..n |-> "idle"]
    /\ op = [c \in 1..n |-> "none"]
    /\ args = [c \in 1..n |-> NoArgs]
    /\ nperm = [c \in 1..n |-> 0]
    /\ nreq = [c \in 1..n |-> 0]
    /\ req = [c \in 1..n |-> NoReq]
    /\ resp = [c \in 1..n |-> NoResp]
    /\ result = [c \in 1..n |-> NoResult]
    /\ wakeAt = [c \in 1..n |-> 0]
    /\ waitQueue = <<>>

\* Topgg::new: a limiter that has granted nothing
FreshLimiter == now = 0 /\ tat = 0 /\ granted = 0

\* the limiter after BucketCapacity - 1 invocations made in the first second
\* have returned: one permit of the burst is left
UsedLimiter == now = 0 /\ tat = BucketCapacity /\ granted = BucketCapacity - 1

Init ==
    /\ FreshLimiter \/ UsedLimiter
    /\ callsLeft = MaxCalls
    /\ CallersIdle(NumCallers)
    /\ HookIdle

Next ==
    \/ \E c \in Callers : \E o \in ReadOps \cup Shortcuts \cup {PostOp} :
          \E a \in ArgsOf(o) : Call(c, o, a)
    \/ \E c \in Callers : Poll(c)
    \/ \E c \in Callers : Wake(c)
    \/ \E c \in Callers : Send(c)
    \/ \E c \in Callers : \E r \in Outcomes(op[c]) : Complete(c, r)
    \/ Tick

Spec == Init /\ [][Next]_vars

\* the limiter under a burst: every invocation is a vote check whose
\* exchange fails
LimiterInit ==
    /\ FreshLimiter
    /\ callsLeft = LimiterCalls
    /\ CallersIdle(NumWaiters)
    /\ HookIdle

LimiterNext ==
    \/ \E c \in Callers : Call(c, "voted", NoArgs)
    \/ \E c \in Callers : Poll(c)
    \/ \E c \in Callers : Wake(c)
    \/ \E c \in Callers : Send(c)
    \/ \E c \in Callers : Complete(c, TransportError)
    \/ Tick

LimiterSpec == LimiterInit /\ [][LimiterNext]_vars

----------------------------------------------------------------------------
(* Specifications of the webhook listener *)

HookInit ==
    /\ HookIdle
    /\ FreshLimiter
    /\ callsLeft = 0
    /\ CallersIdle(NumCallers)

HookNext ==
    \/ \E k \in Conns : \E rq \in Requests : Accept(k, rq)
    \/ \E k \in Conns : CheckMethod(k)
    \/ \E k \in Conns : CheckAuth(k)
    \/ \E k \in Conns : DecodeBody(k)
    \/ \E k \in Conns : Push(k)
    \/ Recv

HookSpec == HookInit /\ [][HookNext]_vars

\* the runtime drives every accepted request through its filters, and the
\* embedding application keeps draining the stream
HookFairness ==
    /\ \A k \in Conns : WF_vars(CheckMethod(k))
    /\ \A k \in Conns : WF_vars(CheckAuth(k))
    /\ \A k \in Conns : WF_vars(DecodeBody(k))
    /\ \A k \in Conns : WF_vars(Push(k))
    /\ WF_vars(Recv)

\* the workload of the delivery claim: valid notifications, one request
\* with a wrong secret and one with a body of the wrong shape
LiveRequests ==
    { [method |-> "POST", auth |-> Some(Secret), body |-> VoteJson],
      [method |-> "POST", auth |-> Some(Secret), body |-> TestJson],
      [method |-> "POST", auth |-> Some("A-Very-Secret-Password"), body |-> VoteJson],
      [method |-> "POST", auth |-> Some(Secret), body |-> SnakeJson] }

LiveHookNext ==
    \/ \E k \in Conns : \E rq \in LiveRequests : Accept(k, rq)
    \/ \E k \in Conns : CheckMethod(k)
    \/ \E k \in Conns : CheckAuth(k)
    \/ \E k \in Conns : DecodeBody(k)
    \/ \E k \in Conns : Push(k)
    \/ Recv

LiveHookSpec == HookInit /\ [][LiveHookNext]_vars /\ HookFairness

----------------------------------------------------------------------------
(* Claims about the directory client *)

BothAbsent(a) == a.server_count = None /\ a.shards = None

Supplied(a) == {f \in PostFields : a[f] # None}

\* C1: a post_bot_stats call with server_count and shards both absent
\* acquires no permit and issues no request, whatever shard_id and
\* shard_count are.
C1_NoOpWhenBothAbsent ==
    \A c \in Callers :
        (op[c] = PostOp /\ BothAbsent(args[c])) => (nperm[c] = 0 /\ nreq[c] = 0)

\* C2: no read operation panics, whatever the outcome of its HTTP exchange:
\* it returns a value or None to its caller.
C2_ReadsNeverPanic ==
    \A c \in Callers : IsRead(op[c]) => pc[c] # "panicked"

\* C7: every invocation of a read operation acquires exactly one permit and
\* then issues exactly one request: none before the permit, one once it is
\* sent, and still one after the exchange has failed or the call has ended.
C7_OnePermitOneRequest ==
    \A c \in Callers :
        IsRead(op[c]) =>
            /\ nreq[c] <= nperm[c]
            /\ nperm[c] <= 1
            /\ pc[c] \in {"polling", "sleeping"} => (nperm[c] = 0 /\ nreq[c] = 0)
            /\ pc[c] = "permitted" => (nperm[c] = 1 /\ nreq[c] = 0)
            /\ pc[c] \in {"sent", "returned", "panicked"} =>
                   (nperm[c] = 1 /\ nreq[c] = 1)

\* a read whose exchange failed has returned None after one request, having
\* been suspended by the limiter on its way
C7_Witness ==
    \E c \in Callers :
        /\ IsRead(op[c])
        /\ pc[c] = "returned"
        /\ resp[c] = TransportError
        /\ result[c] = None
        /\ nreq[c] = 1
        /\ wakeAt[c] > 0

\* C8: the body of a publish-stats request holds exactly the members the
\* caller supplied; an absent one is left out, not sent as null.
C8_AbsentFieldsOmitted ==
    \A c \in Callers :
        (op[c] = PostOp /\ req[c].method = "POST") =>
            /\ DOMAIN req[c].body = Supplied(args[c])
            /\ \A f \in DOMAIN req[c].body : req[c].body[f] # Null

VoteAnswered(c) ==
    /\ op[c] = "voted"
    /\ pc[c] = "returned"
    /\ resp[c].sent
    /\ IsObjectWith(resp[c].json, {"voted"})

\* C9 as stated: for every integer wire value v of the voted member, voted
\* returns false when v = 0 and true when v is anything else.
C9_AnyNonzeroIsTrue ==
    \A c \in Callers :
        VoteAnswered(c) => result[c] = Some(resp[c].json.v.voted # 0)

\* C9 as amended: for every wire value v that fits a signed 8-bit integer,
\* voted returns false when v = 0 and true otherwise (negative values
\* included); for a v outside -128..127 the decoding fails and voted
\* returns None.
C9_I8VoteFlag ==
    \A c \in Callers :
        VoteAnswered(c) =>
            LET v == resp[c].json.v.voted
            IN  result[c] = IF v >= I8Min /\ v <= I8Max THEN Some(v # 0)
                                                       ELSE None

\* a negative wire value has been returned as true
C9_Witness ==
    \E c \in Callers :
        VoteAnswered(c) /\ resp[c].json.v.voted = -1 /\ result[c] = Some(TRUE)

----------------------------------------------------------------------------
(* Claims about the rate limiter *)

\* C6: against a fresh client the first 60 calls get their permit without
\* waiting; with 60 permits granted and no replenishment the limiter lets
\* nobody through, the suspended call has issued no request, and the
\* permits granted never exceed 60 plus the one per second replenished.
C6_BurstOfSixty ==
    /\ granted < BucketCapacity =>
          (LimiterReady(now) /\ \A c \in Callers : pc[c] # "sleeping")
    /\ granted <= BucketCapacity + now * EmissionInterval
    /\ granted = BucketCapacity + now * EmissionInterval => ~LimiterReady(now)
    /\ \A c \in Callers :
          pc[c] = "sleeping" => (nperm[c] = 0 /\ nreq[c] = 0 /\ wakeAt[c] > 0)

\* the 61st call of the first second is suspended until the next second
C6_Witness ==
    /\ granted = BucketCapacity
    /\ now = 0
    /\ \E c \in Callers : pc[c] = "sleeping" /\ wakeAt[c] = 1

Gets(c) == nperm'[c] = nperm[c] + 1

\* C10 as stated, for calls that are suspended: a permit never goes to a
\* call while a call that entered until_ready before it is still suspended.
C10_GrantsInRequestOrder ==
    [][\A c, d \in Callers :
          (Gets(c) /\ pc[d] = "sleeping") => ~Before(waitQueue, d, c)]_vars

\* C10 as amended: the order of the grants is not the order of the requests;
\* a permit goes to a call that checks the limiter at an instant the bucket
\* allows one, and a suspended call checks again only once the instant it
\* was given has come.
C10_GrantWhenBucketAllows ==
    [][\A c \in Callers :
          /\ Gets(c) => (pc[c] = "polling" /\ (tat = 0 \/ now + Tau >= tat))
          /\ (pc[c] = "sleeping" /\ pc'[c] # "sleeping") =>
                 (pc'[c] = "polling" /\ now >= wakeAt[c])]_vars

\* a call holds a replenished permit while another call, whose instant has
\* come, is still suspended
C10_Witness ==
    \E c, d \in Callers :
        /\ pc[c] = "permitted"
        /\ pc[d] = "sleeping"
        /\ wakeAt[d] <= now
        /\ granted > BucketCapacity

----------------------------------------------------------------------------
(* Claims about the webhook listener *)

EventsOf(rid) == {i \in 1..Len(pushLog) : pushLog[i].rid = rid}

\* a pushed notification as the channel holds it
Event(e) == [rid |-> e.rid, hook |-> e.hook]

\* a request that is a POST, carries the secret and has a well-formed body,
\* said without the decoder
WellFormed(j) ==
    /\ j.t = "object"
    /\ \A f \in {"bot", "user", "type", "isWeekend"} : f \in DOMAIN j.v

Valid(rq) ==
    rq.method = "POST" /\ rq.auth = Some(Secret) /\ WellFormed(rq.body)

Busy(k) == conn[k].stage # "idle"

\* C3: an event is pushed only for a POST whose Authorization header equals
\* the secret and whose body decodes; a request with a wrong or missing
\* secret never reaches the decode step and produces no event, and a
\* request with the secret and a malformed body produces no event.
C3_OnlyValidRequestsPush ==
    /\ \A i \in 1..Len(pushLog) : Valid(pushLog[i].request)
    /\ \A k \in Conns :
          Busy(k) =>
            /\ conn[k].request.auth # Some(Secret) =>
                   (~conn[k].decoded /\ conn[k].stage \in {"method", "auth", "rejected"})
            /\ ~Valid(conn[k].request) =>
                   (EventsOf(conn[k].rid) = {} /\ conn[k].stage \notin {"map", "replied"})

\* a POST with a wrong secret and a good body was rejected undecoded, and a
\* POST with the secret and a body that is no JSON was rejected at decoding
C3_Witness ==
    \E k1, k2 \in Conns :
        /\ conn[k1].stage = "rejected"
        /\ conn[k1].request =
              [method |-> "POST", auth |-> Some("A-Very-Secret-Password"), body |-> VoteJson]
        /\ conn[k2].stage = "rejected"
        /\ conn[k2].request = [method |-> "POST", auth |-> Some(Secret), body |-> NotJson]
        /\ conn[k2].decoded

\* the members of the request body, as the event must carry them
CarriesBody(h, b) ==
    /\ h.bot = b.bot
    /\ h.user = b.user
    /\ h.kind = b.type
    /\ h.is_weekend = b.isWeekend
    /\ h.query = IF "query" \in DOMAIN b THEN Some(b.query) ELSE None

C4_ExactlyOne ==
    /\ \A i, j \in 1..Len(pushLog) : pushLog[i].rid = pushLog[j].rid => i = j
    /\ \A i \in 1..Len(pushLog) : CarriesBody(pushLog[i].hook, pushLog[i].request.body.v)
    /\ \A k \in Conns :
          (Busy(k) /\ Valid(conn[k].request)) =>
            /\ conn[k].stage # "rejected"
            /\ Cardinality(EventsOf(conn[k].rid)) =
                   IF conn[k].stage = "replied" THEN 1 ELSE 0
    /\ Len(recvLog) + Len(channel) = Len(pushLog)
    /\ \A i, j \in 1..Len(recvLog) : recvLog[i].rid = recvLog[j].rid => i = j

C4_Observed ==
    \A r \in 1..MaxRequests :
        (\E k \in Conns : conn[k].rid = r /\ Valid(conn[k].request))
            ~> (\E i \in 1..Len(recvLog) : \E n \in EventsOf(r) :
                   recvLog[i] = Event(pushLog[n]))

\* C4: every valid request produces exactly one event, which carries the
\* members of its body, and every such event reaches the consumer: none is
\* lost and none comes twice, also when valid requests are handled at once.
C4_EachValidRequestOneEvent == []C4_ExactlyOne /\ C4_Observed

\* two valid requests were in the listener at once and the consumer has
\* seen both events, the later request's first
C4_Witness ==
    /\ Len(recvLog) = 2
    /\ recvLog[1].rid = 2
    /\ recvLog[2].rid = 1
    /\ \A k \in Conns : conn[k].stage = "replied"

\* C5: the consumer receives the notifications in the order they were
\* pushed (what it has received, followed by what is buffered, is the
\* sequence of pushes), and a push is never held back, however many
\* notifications are buffered.
C5_FifoAndNeverBlocks ==
    /\ recvLog \o channel = [i \in 1..Len(pushLog) |-> Event(pushLog[i])]
    /\ \A k \in Conns : conn[k].stage = "map" => ENABLED Push(k)

\* two different notifications were buffered together and then received in
\* the order of their pushes
C5_Witness ==
    /\ Len(recvLog) = 2
    /\ recvLog[1].hook # recvLog[2].hook
    /\ Event(pushLog[1]) = recvLog[1]
    /\ Event(pushLog[2]) = recvLog[2]
    /\ \E k \in Conns : conn[k].stage = "replied" /\ conn[k].rid = recvLog[1].rid

====
